---- MODULE Spec2Model ----
(***************************************************************************)
(* Model of the ClawPrint client bindings: the SDK (clawprint.ClawPrint    *)
(* over clawprint.http.HTTPClient) and the LangChain adapter client        *)
(* (ClawPrintClient).                                                      *)
(*                                                                         *)
(* Python values are tagged records.  A Python string is a sequence of     *)
(* characters; a string literal of the source is kept as one element of    *)
(* the sequence, so that concatenation is \o.  A dict is a function from   *)
(* key names to values.  The network (the requests library and the remote  *)
(* registry) is the environment: each call that reaches the network gets   *)
(* one reply, a response or a transport exception, chosen by \E.           *)
(***************************************************************************)
EXTENDS Integers, Sequences, FiniteSets, TLC

VARIABLES
    arg_key,        \* the api_key argument given to the constructors
    env_key,        \* os.environ.get("CLAWPRINT_API_KEY") at construction
    arg_base_url,   \* the base_url argument given to the constructors
    cp_api_key,     \* ClawPrint.api_key
    http_api_key,   \* ClawPrint._http.api_key
    http_base_url,  \* ClawPrint._http.base_url
    http_timeout,   \* ClawPrint._http.timeout
    lc_api_key,     \* ClawPrintClient.api_key
    lc_base_url,    \* ClawPrintClient.base_url
    lc_timeout,     \* ClawPrintClient.timeout
    toolkit_client, \* ClawPrintToolkit._client: which client instance it is
    call,           \* the last call made: operation and arguments
    reply,          \* what the network answered to it (NoReply if not reached)
    sent,           \* the requests handed to requests.Session during that call
    outcome,        \* how that call ended: a returned value or a raised error
    plain,          \* how to_dict() on the returned envelope ended, once called
    tools,          \* the lists that consecutive get_tools() calls have returned
    http_cookies,   \* ClawPrint._http._session.cookies: the names in the jar
    lc_cookies      \* ClawPrintClient._session.cookies: the names in the jar

vars == <<arg_key, env_key, arg_base_url, cp_api_key, http_api_key,
          http_base_url, http_timeout, lc_api_key, lc_base_url, lc_timeout,
          toolkit_client, call, reply, sent, outcome, plain, tools,
          http_cookies, lc_cookies>>

config == <<arg_key, env_key, arg_base_url, cp_api_key, http_api_key,
            http_base_url, http_timeout, lc_api_key, lc_base_url, lc_timeout,
            toolkit_client>>

\* what each client's requests.Session holds besides its fixed headers
session == <<http_cookies, lc_cookies>>

----------------------------------------------------------------------------
(* Bounds of the model *)

\* longest caller-supplied string (handle, name, content, ...)
MaxLen == 2

\* most get_tools() calls a caller makes in a row
MaxGetTools == 2

----------------------------------------------------------------------------
(* Python values *)

None == [t |-> "none"]
PyStr(s) == [t |-> "str", s |-> s]
PyInt(n) == [t |-> "int", n |-> n]
PyBool(b) == [t |-> "bool", b |-> b]
\* a float, kept as its number of tenths
PyFloat(x10) == [t |-> "float", x10 |-> x10]
PyDict(d) == [t |-> "dict", d |-> d]
PyList(l) == [t |-> "list", l |-> l]

EmptyDict == PyDict(<< >>)

\* Python truthiness (bool(v))
Truthy(v) ==
    CASE v.t = "none" -> FALSE
      [] v.t = "str"  -> Len(v.s) > 0
      [] v.t = "int"  -> v.n # 0
      [] v.t = "bool" -> v.b
      [] v.t = "float" -> v.x10 # 0
      [] v.t = "dict" -> DOMAIN v.d # {}
      [] v.t = "list" -> Len(v.l) > 0
      [] OTHER        -> TRUE

\* ten times the number a numeric value stands for
X10(v) == IF v.t = "float" THEN v.x10 ELSE 10 * v.n

\* a or b
PyOr(a, b) == IF Truthy(a) THEN a ELSE b

\* dict.get(key, default)
DictGet(dict, key, default) ==
    IF key \in DOMAIN dict.d THEN dict.d[key] ELSE default

DigitChars == <<"0", "1", "2", "3", "4", "5", "6", "7", "8", "9">>

RECURSIVE Digits(_)
Digits(n) ==
    IF n < 10
    THEN <<DigitChars[n + 1]>>
    ELSE Digits(n \div 10) \o <<DigitChars[(n % 10) + 1]>>

\* str(v), as used by f-strings and by str(message)
Str(v) ==
    CASE v.t = "str"  -> v.s
      [] v.t = "none" -> <<"None">>
      [] v.t = "int"  -> IF v.n < 0 THEN <<"-">> \o Digits(-v.n) ELSE Digits(v.n)
      [] v.t = "bool" -> IF v.b THEN <<"True">> ELSE <<"False">>
      [] v.t = "float" -> Digits(v.x10 \div 10) \o <<".">> \o Digits(v.x10 % 10)
      [] OTHER        -> <<"<repr>">>

\* characters str.strip() removes
Whitespace == {" ", "\t"}

RECURSIVE LStrip(_, _)
LStrip(s, chars) ==
    IF s # << >> /\ Head(s) \in chars THEN LStrip(Tail(s), chars) ELSE s

\* mutant of RStrip: only the last character is looked at
RStrip_once(s, chars) ==
    IF s # << >> /\ s[Len(s)] \in chars THEN SubSeq(s, 1, Len(s) - 1) ELSE s

RECURSIVE RStrip(_, _)
RStrip(s, chars) ==
    IF s # << >> /\ s[Len(s)] \in chars
    THEN RStrip(SubSeq(s, 1, Len(s) - 1), chars)
    ELSE s

\* str.strip()
Strip(s) == RStrip(LStrip(s, Whitespace), Whitespace)

\* all strings over chars of length at most n
RECURSIVE StrsUpTo(_, _)
StrsUpTo(chars, n) ==
    IF n = 0
    THEN {<< >>}
    ELSE LET shorter == StrsUpTo(chars, n - 1)
         IN shorter \cup {Append(s, c) : s \in shorter, c \in chars}

----------------------------------------------------------------------------
(* Errors and outcomes *)

\* clawprint.exceptions
ClawPrintError(message, status, code, body) ==
    [cls |-> "ClawPrintError", message |-> message, status |-> status,
     code |-> code, body |-> body]

AuthenticationError(method) ==
    [ClawPrintError(<<"API key required for ">> \o method \o <<"(). ">>
                    \o <<"Pass api_key to ClawPrint() or set the CLAWPRINT_API_KEY env var.">>,
                    None, PyStr(<<"auth_required">>), None)
     EXCEPT !.cls = "AuthenticationError"]

ValidationError(message) ==
    [ClawPrintError(message, None, PyStr(<<"validation_error">>), None)
     EXCEPT !.cls = "ValidationError"]

\* the adapter's exception
ClawPrintAPIError(status_code, detail) ==
    [cls |-> "ClawPrintAPIError", status_code |-> status_code, detail |-> detail]

\* an exception of another library or of Python itself, passed through
Foreign(cls) == [cls |-> cls]

NoOutcome == [kind |-> "none"]
Return(v) == [kind |-> "return", value |-> v]
Raise(e) == [kind |-> "raise", error |-> e]

----------------------------------------------------------------------------
(* The network: what requests.Session.request gives back *)

NoReply == [kind |-> "none"]

\* resp.json() raises ValueError
Unparsable == [t |-> "unparsable"]

\* a response: its status code, the result of resp.json(), resp.text and
\* the names of the cookies its Set-Cookie headers carry
Response(status_code, json, text) ==
    [kind |-> "resp", status_code |-> status_code, json |-> json, text |-> text,
     cookies |-> {}]

\* the same response with Set-Cookie headers for these names
SetCookie(resp, names) == [resp EXCEPT !.cookies = names]

\* a transport exception of class exc; str(exc) is kept as one literal
TransportExc(exc) == [kind |-> "exc", exc |-> exc, text |-> <<"<exc>">>]

\* requests.exceptions: the direct base classes of each exception class
Bases(exc) ==
    CASE exc = "RequestException" -> {}
      [] exc = "ConnectionError"  -> {"RequestException"}
      [] exc = "Timeout"          -> {"RequestException"}
      [] exc = "ConnectTimeout"   -> {"ConnectionError", "Timeout"}
      [] exc = "ReadTimeout"      -> {"Timeout"}
      [] exc = "SSLError"         -> {"ConnectionError"}
      [] exc = "TooManyRedirects" -> {"RequestException"}
      [] OTHER                    -> {}

\* isinstance(exc, cls), which is what an except clause tests
RECURSIVE IsInstance(_, _)
IsInstance(exc, cls) ==
    exc = cls \/ \E b \in Bases(exc) : IsInstance(b, cls)

\* requests.Response.ok: raise_for_status() raises for 400 <= status < 600 only
Ok(status_code) == ~(400 <= status_code /\ status_code < 600)

----------------------------------------------------------------------------
(* clawprint.http.HTTPClient *)

\* what the rest of a call does after the point it has reached
Result(s, o) == [sent |-> s, outcome |-> o]

HTTP_url(path) == http_base_url \o path

\* mutant of HTTP_headers: the header is built whenever it is asked for
HTTP_headers_unguarded(authenticated) ==
    IF authenticated
    THEN PyDict([Authorization |-> PyStr(<<"Bearer ">> \o Str(http_api_key))])
    ELSE EmptyDict

\* mutant of HTTP_headers: a configured key is sent with every request
HTTP_headers_always(authenticated) ==
    IF Truthy(http_api_key)
    THEN PyDict([Authorization |-> PyStr(<<"Bearer ">> \o Str(http_api_key))])
    ELSE EmptyDict

\* mutant of HTTP_headers: the key is sent without its scheme
HTTP_headers_bare(authenticated) ==
    IF authenticated /\ Truthy(http_api_key)
    THEN PyDict([Authorization |-> PyStr(Str(http_api_key))])
    ELSE EmptyDict

HTTP_headers(authenticated) ==
    IF authenticated /\ Truthy(http_api_key)
    THEN PyDict([Authorization |-> PyStr(<<"Bearer ">> \o Str(http_api_key))])
    ELSE EmptyDict

\* mutant of StripNone: the filter tests truthiness, "if v"
StripNone_falsy(params) ==
    PyDict([k \in {j \in DOMAIN params.d : Truthy(params.d[j])} |-> params.d[k]])

\* {k: v for k, v in params.items() if v is not None}
StripNone(params) ==
    PyDict([k \in {j \in DOMAIN params.d : params.d[j] # None} |-> params.d[k]])

HTTP_handle_response(resp) ==
    LET body == IF resp.json = Unparsable THEN None ELSE resp.json
    IN  IF Ok(resp.status_code)
        THEN Return(IF body = None THEN EmptyDict ELSE body)
        ELSE LET fallback == PyStr(<<"API request failed">>)
                 shaped == Truthy(body) /\ body.t = "dict"
                 message == IF shaped
                            THEN DictGet(body, "error",
                                         DictGet(body, "message", fallback))
                            ELSE fallback
                 code == IF shaped THEN DictGet(body, "code", None) ELSE None
             IN  Raise(ClawPrintError(Str(message), PyInt(resp.status_code),
                                      code, body))

\* mutant of HTTP_transport_error: a timeout is given the status 408
HTTP_transport_error_408(rep) ==
    IF IsInstance(rep.exc, "ConnectionError")
    THEN ClawPrintError(<<"Connection error: ">> \o rep.text, None,
                        PyStr(<<"connection_error">>), None)
    ELSE IF IsInstance(rep.exc, "Timeout")
    THEN ClawPrintError(<<"Request timed out after ">> \o Str(http_timeout)
                        \o <<"s">>, PyInt(408), PyStr(<<"timeout">>), None)
    ELSE ClawPrintError(<<"Request failed: ">> \o rep.text, None,
                        PyStr(<<"request_error">>), None)

\* the except clauses of request, in their order
HTTP_transport_error(rep) ==
    IF IsInstance(rep.exc, "ConnectionError")
    THEN ClawPrintError(<<"Connection error: ">> \o rep.text, None,
                        PyStr(<<"connection_error">>), None)
    ELSE IF IsInstance(rep.exc, "Timeout")
    THEN ClawPrintError(<<"Request timed out after ">> \o Str(http_timeout)
                        \o <<"s">>, None, PyStr(<<"timeout">>), None)
    ELSE ClawPrintError(<<"Request failed: ">> \o rep.text, None,
                        PyStr(<<"request_error">>), None)

HTTP_request(method, path, params, json_body, authenticated, rep) ==
    LET stripped == IF Truthy(params) THEN StripNone(params) ELSE params
        req == [method  |-> method,
                url     |-> HTTP_url(path),
                params  |-> PyOr(stripped, None),
                json    |-> json_body,
                headers |-> HTTP_headers(authenticated),
                timeout |-> http_timeout,
                session |-> "http",
                cookies |-> http_cookies]
    IN  Result(<<req>>,
               IF rep.kind = "exc"
               THEN Raise(HTTP_transport_error(rep))
               ELSE HTTP_handle_response(rep))

HTTP_get(path, params, authenticated, rep) ==
    HTTP_request("GET", path, params, None, authenticated, rep)

HTTP_post(path, json_body, authenticated, rep) ==
    HTTP_request("POST", path, None, json_body, authenticated, rep)

HTTP_patch(path, json_body, authenticated, rep) ==
    HTTP_request("PATCH", path, None, json_body, authenticated, rep)

\* quote(segment, safe=""): the unreserved characters stay, the others become
\* the %XX of their byte
Unreserved ==
    {"a", "b", "z", "A", "Z", "0", "9", "-", ".", "_", "~"}

PctEncode(c) ==
    CASE c \in Unreserved -> <<c>>
      [] c = " "  -> <<"%", "2", "0">>
      [] c = "\t" -> <<"%", "0", "9">>
      [] c = "/"  -> <<"%", "2", "F">>
      [] c = "?"  -> <<"%", "3", "F">>
      [] c = "#"  -> <<"%", "2", "3">>
      [] c = "%"  -> <<"%", "2", "5">>

\* mutant of encode_path_segment: quote(segment), whose default keeps "/"
RECURSIVE encode_path_segment_keeps_slash(_)
encode_path_segment_keeps_slash(segment) ==
    IF segment = << >>
    THEN << >>
    ELSE (IF Head(segment) = "/" THEN <<"/">> ELSE PctEncode(Head(segment)))
         \o encode_path_segment_keeps_slash(Tail(segment))

RECURSIVE encode_path_segment(_)
encode_path_segment(segment) ==
    IF segment = << >>
    THEN << >>
    ELSE PctEncode(Head(segment)) \o encode_path_segment(Tail(segment))

----------------------------------------------------------------------------
(* clawprint.types *)

RECURSIVE wrap(_)
\* _APIObject.__init__: the instance's attributes, "_data" first and then
\* one attribute per key of data (a key named "_data" overwrites it)
APIObject(cls, data) ==
    [t     |-> "obj",
     cls   |-> cls,
     attrs |-> [k \in DOMAIN data.d \cup {"_data"} |->
                  IF k \in DOMAIN data.d THEN wrap(data.d[k]) ELSE data]]

wrap(value) ==
    CASE value.t = "dict" -> APIObject("_APIObject", value)
      [] value.t = "list" -> PyList([i \in DOMAIN value.l |-> wrap(value.l[i])])
      [] OTHER            -> value

\* attribute names that object.__setattr__ refuses to bind to a wrapped
\* value: __class__ takes a class only, __dict__ a dict only
SlotNames == {"__class__", "__dict__"}

\* every object.__setattr__ of the construction, at any depth, goes through
RECURSIVE Settable(_)
Settable(value) ==
    CASE value.t = "dict" ->
            \A k \in DOMAIN value.d : k \notin SlotNames /\ Settable(value.d[k])
      [] value.t = "list" -> \A i \in DOMAIN value.l : Settable(value.l[i])
      [] OTHER -> TRUE

\* cls(data) as the client methods call it: data.items() fails with
\* AttributeError when data is not a dict, object.__setattr__ with TypeError
\* on a key it cannot bind
Construct(cls, data) ==
    IF data.t # "dict"
    THEN Raise(Foreign("AttributeError"))
    ELSE IF ~Settable(data)
    THEN Raise(Foreign("TypeError"))
    ELSE Return(APIObject(cls, data))

\* the methods of _APIObject that a caller reaches by attribute lookup
Methods == {"get", "to_dict"}

\* getattr(obj, name): the instance's attributes come before the methods of
\* the class
GetAttr(obj, name) ==
    IF name \in DOMAIN obj.attrs
    THEN Return(obj.attrs[name])
    ELSE IF name \in Methods
    THEN Return([t |-> "method", name |-> name])
    ELSE Raise(Foreign("AttributeError"))

\* x can be unpacked into a key and a value
IsPair(x) ==
    \/ x.t = "list" /\ Len(x.l) = 2
    \/ x.t = "str" /\ Len(x.s) = 2
    \/ x.t = "obj" /\ x.attrs["_data"].t = "dict"
       /\ Cardinality(DOMAIN x.attrs["_data"].d) = 2

\* dict(x): a copy of a dict; otherwise x is iterated for key-value pairs
\* (an envelope iterates the keys of its data).  Defined for the values
\* that reach it here: no list of pairs, no envelope with a "keys" field.
DictOf(x) ==
    CASE x.t = "dict" -> Return(x)
      [] x.t = "obj" /\ "keys" \notin DOMAIN x.attrs
                     /\ x.attrs["_data"].t = "dict" ->
            IF DOMAIN x.attrs["_data"].d = {}
            THEN Return(EmptyDict)
            ELSE Raise(Foreign("ValueError"))
      [] x.t = "list" /\ x.l = << >> -> Return(EmptyDict)
      [] x.t = "list" /\ x.l # << >> /\ ~IsPair(x.l[1]) ->
            IF x.l[1].t \in {"list", "str", "obj"}
            THEN Raise(Foreign("ValueError"))
            ELSE Raise(Foreign("TypeError"))
      [] x.t = "str" ->
            IF x.s = << >> THEN Return(EmptyDict) ELSE Raise(Foreign("ValueError"))
      [] x.t \in {"none", "int", "bool", "float"} -> Raise(Foreign("TypeError"))

\* obj.to_dict(): the name is looked up on the instance first, where a field
\* called "to_dict" hides the method; the method is dict(self._data)
to_dict(obj) ==
    IF "to_dict" \in DOMAIN obj.attrs
    THEN Raise(Foreign("TypeError"))
    ELSE DictOf(obj.attrs["_data"])

----------------------------------------------------------------------------
(* clawprint.client.ClawPrint *)

Failed(e) == Result(<< >>, Raise(e))

\* the result of the transport helper wrapped in the response type
Wrapped(cls, r) ==
    IF r.outcome.kind = "return"
    THEN Result(r.sent, Construct(cls, r.outcome.value))
    ELSE r

\* mutant of NoAuth: the key check is left to the transport helper
NoAuth_unchecked == FALSE

\* _require_auth raises
NoAuth == ~Truthy(cp_api_key)

\* mutant of Missing: the string is not stripped before the test
Missing_unstripped(value) ==
    value = None \/ (value.t = "str" /\ value.s = << >>)

\* _require(name, value) raises
Missing(value) ==
    value = None \/ (value.t = "str" /\ Strip(value.s) = << >>)

RequiredError(name) ==
    ValidationError(<<"'">> \o name \o <<"' is required and cannot be empty.">>)

CP_search(params, rep) ==
    Wrapped("SearchResponse",
            HTTP_get(<<"/v1/agents/search">>, PyDict(params), FALSE, rep))

CP_trust(handle, rep) ==
    IF Missing(handle) THEN Failed(RequiredError(<<"handle">>))
    ELSE Wrapped("TrustResponse",
                 HTTP_get(<<"/v1/trust/">> \o encode_path_segment(handle.s),
                          None, FALSE, rep))

\* body.update(extra) on top of the three required fields and the two
\* optional lists
RegisterBody(name, handle, description, services, protocols, extra) ==
    LET base == [k \in {"name", "handle", "description"}
                      \cup (IF services # None THEN {"services"} ELSE {})
                      \cup (IF protocols # None THEN {"protocols"} ELSE {}) |->
                   CASE k = "name"        -> name
                     [] k = "handle"      -> handle
                     [] k = "description" -> description
                     [] k = "services"    -> services
                     [] k = "protocols"   -> protocols]
    IN  PyDict([k \in DOMAIN base \cup DOMAIN extra |->
                  IF k \in DOMAIN extra THEN extra[k] ELSE base[k]])

CP_register(name, handle, description, services, protocols, extra, rep) ==
    IF Missing(name) THEN Failed(RequiredError(<<"name">>))
    ELSE IF Missing(handle) THEN Failed(RequiredError(<<"handle">>))
    ELSE IF Missing(description) THEN Failed(RequiredError(<<"description">>))
    ELSE Wrapped("RegisterResponse",
                 HTTP_post(<<"/v1/agents">>,
                           RegisterBody(name, handle, description, services,
                                        protocols, extra),
                           FALSE, rep))

\* mutant of CP_update: an empty patch is sent as it is
CP_update_unchecked(handle, fields, rep) ==
    IF NoAuth THEN Failed(AuthenticationError(<<"update">>))
    ELSE IF Missing(handle) THEN Failed(RequiredError(<<"handle">>))
    ELSE Wrapped("UpdateResponse",
                 HTTP_patch(<<"/v1/agents/">> \o encode_path_segment(handle.s),
                            PyDict(fields), TRUE, rep))

CP_update(handle, fields, rep) ==
    IF NoAuth THEN Failed(AuthenticationError(<<"update">>))
    ELSE IF Missing(handle) THEN Failed(RequiredError(<<"handle">>))
    ELSE IF ~Truthy(PyDict(fields))
    THEN Failed(ValidationError(<<"At least one field is required for update.">>))
    ELSE Wrapped("UpdateResponse",
                 HTTP_patch(<<"/v1/agents/">> \o encode_path_segment(handle.s),
                            PyDict(fields), TRUE, rep))

\* the optional fields of report that are not None
ReportBody(required, optional) ==
    PyDict([k \in DOMAIN required
                  \cup {j \in DOMAIN optional : optional[j] # None} |->
              IF k \in DOMAIN required THEN required[k] ELSE optional[k]])

\* mutant of RatingOutOfRange: the bounds themselves are refused
RatingOutOfRange_strict(rating) ==
    ~(1 * 10 < X10(rating) /\ X10(rating) < 5 * 10)

\* not (1 <= rating <= 5)
RatingOutOfRange(rating) == ~(1 * 10 <= X10(rating) /\ X10(rating) <= 5 * 10)

\* mutant of CP_report: the rating is checked first and the key last
CP_report_key_last(provider_handle, requester_handle, protocol, outcome_, rating, external_tx_id, response_time_ms, cost_actual, rep) ==
    IF rating # None /\ RatingOutOfRange(rating)
    THEN Failed(ValidationError(<<"rating must be between 1 and 5.">>))
    ELSE IF Missing(provider_handle)
    THEN Failed(RequiredError(<<"provider_handle">>))
    ELSE IF Missing(requester_handle)
    THEN Failed(RequiredError(<<"requester_handle">>))
    ELSE IF Missing(protocol) THEN Failed(RequiredError(<<"protocol">>))
    ELSE IF Missing(outcome_) THEN Failed(RequiredError(<<"outcome">>))
    ELSE IF NoAuth THEN Failed(AuthenticationError(<<"report">>))
    ELSE Wrapped("ReportResponse",
                 HTTP_post(<<"/v1/transactions/report">>,
                           ReportBody([provider_handle  |-> provider_handle,
                                       requester_handle |-> requester_handle,
                                       protocol         |-> protocol,
                                       outcome          |-> outcome_],
                                      [rating           |-> rating,
                                       external_tx_id   |-> external_tx_id,
                                       response_time_ms |-> response_time_ms,
                                       cost_actual      |-> cost_actual]),
                           TRUE, rep))

CP_report(provider_handle, requester_handle, protocol, outcome_, rating, external_tx_id, response_time_ms, cost_actual, rep) ==
    IF NoAuth THEN Failed(AuthenticationError(<<"report">>))
    ELSE IF Missing(provider_handle)
    THEN Failed(RequiredError(<<"provider_handle">>))
    ELSE IF Missing(requester_handle)
    THEN Failed(RequiredError(<<"requester_handle">>))
    ELSE IF Missing(protocol) THEN Failed(RequiredError(<<"protocol">>))
    ELSE IF Missing(outcome_) THEN Failed(RequiredError(<<"outcome">>))
    ELSE IF rating # None /\ RatingOutOfRange(rating)
    THEN Failed(ValidationError(<<"rating must be between 1 and 5.">>))
    ELSE Wrapped("ReportResponse",
                 HTTP_post(<<"/v1/transactions/report">>,
                           ReportBody([provider_handle  |-> provider_handle,
                                       requester_handle |-> requester_handle,
                                       protocol         |-> protocol,
                                       outcome          |-> outcome_],
                                      [rating           |-> rating,
                                       external_tx_id   |-> external_tx_id,
                                       response_time_ms |-> response_time_ms,
                                       cost_actual      |-> cost_actual]),
                           TRUE, rep))

CP_domains(rep) ==
    Wrapped("DomainsResponse", HTTP_get(<<"/v1/domains">>, None, FALSE, rep))

CP_scan(content, rep) ==
    IF NoAuth THEN Failed(AuthenticationError(<<"scan">>))
    ELSE IF Missing(content) THEN Failed(RequiredError(<<"content">>))
    ELSE Wrapped("ScanResponse",
                 HTTP_post(<<"/v1/security/scan">>,
                           PyDict([content |-> content]), TRUE, rep))

CP_discover(rep) ==
    Wrapped("DiscoverResponse", HTTP_get(<<"/v1/discover">>, None, FALSE, rep))

----------------------------------------------------------------------------
(* langchain_community.tools.clawprint._client.ClawPrintClient *)

\* _headers(auth_required) raises
LC_headers_fail(auth_required) == auth_required /\ ~Truthy(lc_api_key)

LC_headers(auth_required) ==
    IF auth_required
    THEN PyDict([Authorization |-> PyStr(<<"Bearer ">> \o Str(lc_api_key))])
    ELSE EmptyDict

NoKeyError ==
    ClawPrintAPIError(401, PyStr(<<"This endpoint requires an API key. ">>
                                 \o <<"Pass api_key= or set CLAWPRINT_API_KEY.">>))

\* json.dumps(body): the JSON text of body, never empty
JsonDumps(body) == [t |-> "json", of |-> body]

\* resp.text[:500]
TextLimit == 500
Truncated(text) == SubSeq(text, 1, IF Len(text) < TextLimit THEN Len(text) ELSE TextLimit)

\* mutant of LC_handle_response: a 204 gives an empty mapping
LC_handle_response_empty(resp) ==
    IF Ok(resp.status_code)
    THEN IF resp.status_code = 204
         THEN Return(EmptyDict)
         ELSE IF resp.json = Unparsable
              THEN Raise(Foreign("JSONDecodeError"))
              ELSE Return(resp.json)
    ELSE Raise(ClawPrintAPIError(resp.status_code, PyStr(Truncated(resp.text))))

LC_handle_response(resp) ==
    IF Ok(resp.status_code)
    THEN IF resp.status_code = 204
         THEN Return(None)
         ELSE IF resp.json = Unparsable
              THEN Raise(Foreign("JSONDecodeError"))
              ELSE Return(resp.json)
    ELSE LET body == resp.json
             detail == IF body # Unparsable /\ body.t = "dict"
                       THEN PyOr(DictGet(body, "detail", None),
                                 PyOr(DictGet(body, "message", None),
                                      JsonDumps(body)))
                       ELSE PyStr(Truncated(resp.text))
         IN  Raise(ClawPrintAPIError(resp.status_code, detail))

\* self._session.get / post: the adapter catches no transport exception
LC_send(method, path, params, json_body, auth_required, rep) ==
    IF LC_headers_fail(auth_required)
    THEN Failed(NoKeyError)
    ELSE Result(<<[method  |-> method,
                   url     |-> lc_base_url \o path,
                   params  |-> params,
                   json    |-> json_body,
                   headers |-> LC_headers(auth_required),
                   timeout |-> lc_timeout,
                   session |-> "lc",
                   cookies |-> lc_cookies]>>,
                IF rep.kind = "exc"
                THEN Raise(Foreign(rep.exc))
                ELSE LC_handle_response(rep))

LC_search_agents(query, domain, min_score, rep) ==
    LC_send("GET", <<"/v1/agents/search">>,
            PyDict([k \in {"q"} \cup (IF Truthy(domain) THEN {"domain"} ELSE {})
                            \cup (IF min_score # None THEN {"min_score"} ELSE {}) |->
                      CASE k = "q"         -> query
                        [] k = "domain"    -> domain
                        [] k = "min_score" -> min_score]),
            None, FALSE, rep)

\* mutant of LC_get_agent: the handle is escaped as the SDK escapes it
LC_get_agent_escaped(handle, rep) ==
    LC_send("GET", <<"/v1/agents/">> \o encode_path_segment(Str(handle)),
            None, None, FALSE, rep)

LC_get_agent(handle, rep) ==
    LC_send("GET", <<"/v1/agents/">> \o Str(handle), None, None, FALSE, rep)

LC_get_trust(handle, rep) ==
    LC_send("GET", <<"/v1/trust/">> \o Str(handle), None, None, FALSE, rep)

LC_list_domains(rep) ==
    LC_send("GET", <<"/v1/domains">>, None, None, FALSE, rep)

LC_create_exchange_request(domains, task, requirements, rep) ==
    LC_send("POST", <<"/v1/exchange/requests">>, None,
            PyDict([k \in {"domains", "task"}
                            \cup (IF Truthy(requirements) THEN {"requirements"} ELSE {}) |->
                      CASE k = "domains"      -> domains
                        [] k = "task"         -> task
                        [] k = "requirements" -> requirements]),
            TRUE, rep)

LC_get_exchange_request(request_id, rep) ==
    LC_send("GET", <<"/v1/exchange/requests/">> \o Str(request_id),
            None, None, TRUE, rep)

----------------------------------------------------------------------------
(* langchain_community.tools.clawprint.tool *)

\* _json_result applied to what the client call returned; an error of the
\* call passes through
json_result(r) ==
    IF r.outcome.kind = "return"
    THEN Result(r.sent, Return(JsonDumps(r.outcome.value)))
    ELSE r

\* min_trust * 100
Times100(min_trust) ==
    IF min_trust.t = "float"
    THEN PyFloat(min_trust.x10 * 100)
    ELSE PyInt(min_trust.n * 100)

\* mutant of NotSupported: the asynchronous call completes with no result
NotSupported_returns == Result(<< >>, Return(None))

\* raise NotImplementedError("Async is not supported yet.")
NotSupported == Failed(Foreign("NotImplementedError"))

\* mutant of SearchTool_run: a min_trust of zero counts as not given
SearchTool_run_truthy(query, domain, min_trust, rep) ==
    LET min_score == IF Truthy(min_trust) THEN Times100(min_trust) ELSE None
    IN  json_result(LC_search_agents(query, domain, min_score, rep))

SearchTool_run(query, domain, min_trust, rep) ==
    LET min_score == IF min_trust # None THEN Times100(min_trust) ELSE None
    IN  json_result(LC_search_agents(query, domain, min_score, rep))

SearchTool_arun(query, domain, min_trust) == NotSupported

GetAgentTool_run(handle, rep) == json_result(LC_get_agent(handle, rep))

GetAgentTool_arun(handle) == NotSupported

TrustTool_run(handle, rep) == json_result(LC_get_trust(handle, rep))

TrustTool_arun(handle) == NotSupported

DomainsTool_run(rep) == json_result(LC_list_domains(rep))

DomainsTool_arun == NotSupported

HireAgentTool_run(domains, task, requirements, rep) ==
    json_result(LC_create_exchange_request(domains, task, requirements, rep))

HireAgentTool_arun(domains, task, requirements) == NotSupported

CheckExchangeTool_run(request_id, rep) ==
    json_result(LC_get_exchange_request(request_id, rep))

CheckExchangeTool_arun(request_id) == NotSupported

\* a ClawPrintClient instance, told from others by the order of creation
ClientRef(n) == [t |-> "ref", cls |-> "ClawPrintClient", id |-> n]

\* the class attribute name of each tool class
ToolName(cls) ==
    CASE cls = "ClawPrintSearchTool"        -> "clawprint_search"
      [] cls = "ClawPrintGetAgentTool"      -> "clawprint_get_agent"
      [] cls = "ClawPrintTrustTool"         -> "clawprint_trust"
      [] cls = "ClawPrintDomainsTool"       -> "clawprint_domains"
      [] cls = "ClawPrintHireAgentTool"     -> "clawprint_hire"
      [] cls = "ClawPrintCheckExchangeTool" -> "clawprint_check_exchange"

\* cls(client=c)
Tool(cls, c) == [t |-> "tool", cls |-> cls, name |-> ToolName(cls), client |-> c]

\* mutant of Toolkit_get_tools: every tool is given a client of its own
Toolkit_get_tools_apart ==
    PyList(<<Tool("ClawPrintSearchTool", ClientRef(2)),
             Tool("ClawPrintGetAgentTool", ClientRef(3)),
             Tool("ClawPrintTrustTool", ClientRef(4)),
             Tool("ClawPrintDomainsTool", ClientRef(5)),
             Tool("ClawPrintHireAgentTool", ClientRef(6)),
             Tool("ClawPrintCheckExchangeTool", ClientRef(7))>>)

\* ClawPrintToolkit.get_tools
Toolkit_get_tools ==
    LET c == toolkit_client
    IN  PyList(<<Tool("ClawPrintSearchTool", c),
                 Tool("ClawPrintGetAgentTool", c),
                 Tool("ClawPrintTrustTool", c),
                 Tool("ClawPrintDomainsTool", c),
                 Tool("ClawPrintHireAgentTool", c),
                 Tool("ClawPrintCheckExchangeTool", c)>>)

----------------------------------------------------------------------------
(* Construction *)

\* _DEFAULT_BASE_URL, CLAWPRINT_DEFAULT_BASE_URL
DefaultBaseUrl == <<"https://clawprint.io">>

\* _DEFAULT_TIMEOUT
DefaultTimeout == 30

\* api_key arguments: omitted, empty, given
ArgKeys == {None, PyStr(<< >>), PyStr(<<"cp_explicit">>)}

\* CLAWPRINT_API_KEY: unset, set
EnvKeys == {None, PyStr(<<"cp_env_key">>)}

\* ClawPrint(api_key, base_url, timeout) and ClawPrintToolkit(api_key,
\* base_url, timeout), which builds its ClawPrintClient(api_key, base_url,
\* timeout); both from the same arguments and environment
Construct_clients(api_key, environ, base_url, timeout) ==
    /\ arg_key = api_key
    /\ env_key = environ
    /\ arg_base_url = base_url
    /\ cp_api_key = PyOr(api_key, environ)
    /\ http_api_key = cp_api_key
    /\ http_base_url = RStrip(base_url, {"/"})
    /\ http_timeout = PyInt(timeout)
    /\ lc_api_key = PyOr(api_key, environ)
    /\ lc_base_url = RStrip(base_url, {"/"})
    /\ lc_timeout = PyInt(timeout)
    /\ toolkit_client = ClientRef(1)
    /\ call = [op |-> "none"]
    /\ reply = NoReply
    /\ sent = << >>
    /\ outcome = NoOutcome
    /\ plain = NoOutcome
    /\ tools = << >>
    /\ http_cookies = {}
    /\ lc_cookies = {}

\* base_url arguments: the default, one with trailing slashes, one with a
\* slash inside
BaseUrls ==
    {DefaultBaseUrl, <<"https://custom.api.io", "/">>,
     <<"https://custom.api.io", "/", "/">>,
     <<"https://custom.api.io", "/", "v2">>}

\* timeout arguments, in seconds
Timeouts == {DefaultTimeout, 5}

Init ==
    \E k \in ArgKeys, e \in EnvKeys, u \in BaseUrls, t \in Timeouts :
        Construct_clients(k, e, u, t)

----------------------------------------------------------------------------
(* Inputs *)

\* caller-supplied strings: letters and blanks
Texts == {PyStr(s) : s \in StrsUpTo({"a", " "}, MaxLen)}

\* handles: also with characters that are reserved in a URL
Handles == {PyStr(s) : s \in StrsUpTo({"a", " ", "/", "?", "#"}, MaxLen)}

SomeText == PyStr(<<"a">>)
Blank == PyStr(<<" ">>)
Empty == PyStr(<< >>)

\* a dict given by a record
Obj(rec) == PyDict(rec)

\* parsed bodies a registry may answer with
Bodies ==
    {Unparsable, None, EmptyDict,
     Obj([error |-> PyStr(<<"E">>)]),
     Obj([message |-> PyStr(<<"M">>)]),
     Obj([error |-> PyStr(<<"E">>), message |-> PyStr(<<"M">>),
          code |-> PyStr(<<"C">>)]),
     Obj([error |-> PyInt(7), code |-> PyInt(7)]),
     Obj([error |-> None, message |-> PyStr(<<"M">>)]),
     Obj([code |-> PyStr(<<"C">>)]),
     Obj([handle |-> SomeText, trust_score |-> PyInt(82)]),
     PyList(<<Obj([handle |-> SomeText])>>),
     PyInt(1)}

Statuses == {101, 200, 204, 299, 304, 400, 404, 500, 599, 600}

Exceptions ==
    {"ConnectionError", "Timeout", "ConnectTimeout", "ReadTimeout",
     "SSLError", "TooManyRedirects", "RequestException"}

Replies ==
    {Response(st, b, <<"<text>">>) : st \in Statuses, b \in Bodies}
    \cup {TransportExc(x) : x \in Exceptions}

\* the registry at the default base URL also answers with a session cookie
CookieReplies ==
    IF arg_base_url = DefaultBaseUrl
    THEN {SetCookie(Response(200, Obj([domains |-> PyList(<<SomeText>>)]),
                             <<"<text>">>), {"sid"})}
    ELSE {}

\* a sample of the replies, for the operations above the transport
SomeReplies ==
    {Response(200, Obj([handle |-> SomeText, trust_score |-> PyInt(82)]), <<"<text>">>),
     Response(200, PyList(<<Obj([handle |-> SomeText])>>), <<"<text>">>),
     Response(204, Unparsable, << >>),
     Response(304, Unparsable, << >>),
     Response(404, Obj([error |-> PyStr(<<"E">>)]), <<"<text>">>),
     Response(500, Unparsable, <<"<text>">>),
     TransportExc("ConnectTimeout"),
     TransportExc("TooManyRedirects")}

\* values of the fields of a JSON object: scalars, objects, lists of
\* objects, lists in lists
JsonValues ==
    {PyInt(82), PyStr(<<"B", "+">>), PyBool(TRUE), None,
     EmptyDict, Obj([score |-> PyInt(1)]),
     PyList(<< >>), PyList(<<Obj([score |-> PyInt(1)]), PyInt(2)>>),
     PyList(<<PyList(<<Obj([score |-> PyInt(1)])>>)>>)}

\* names of fields: plain, and names the envelope uses itself
FieldNames == {"handle", "_data", "get", "to_dict", "__class__"}

\* JSON objects answered to trust
EnvelopeBodies ==
    {Obj([k \in {name} |-> v]) : name \in FieldNames, v \in JsonValues}
    \cup {Obj([handle |-> PyStr(<<"legal-eagle">>), trust_score |-> PyInt(82),
               grade |-> PyStr(<<"B", "+">>), acp_compatible |-> PyBool(TRUE)]),
          Obj([handle |-> SomeText, _data |-> PyInt(1)]),
          Obj([agent |-> Obj([handle |-> SomeText,
                              history |-> PyList(<<Obj([score |-> PyInt(1)])>>)])])}

EnvelopeReplies == {Response(200, b, <<"<text>">>) : b \in EnvelopeBodies}

\* bodies of the adapter's routes: with a detail, a message, both or none
DetailBodies ==
    {Unparsable, None, EmptyDict,
     Obj([detail |-> PyStr(<<"Not found">>)]),
     Obj([detail |-> PyStr(<<"D">>), message |-> PyStr(<<"M">>)]),
     Obj([detail |-> Empty, message |-> PyStr(<<"M">>)]),
     Obj([detail |-> Empty, message |-> Empty]),
     Obj([message |-> PyStr(<<"M">>)]),
     Obj([error |-> PyStr(<<"E">>)]),
     PyList(<<Obj([detail |-> PyStr(<<"D">>)])>>)}

\* a response text longer than the adapter quotes
LongText == [i \in 1..(TextLimit + 1) |-> "x"]

\* replies tried on the adapter's list_domains
AdapterReplies ==
    {Response(st, b, <<"<text>">>) : st \in {200, 201, 204, 304, 404, 500},
                                    b \in DetailBodies}
    \cup {Response(500, Unparsable, LongText)}

----------------------------------------------------------------------------
(* Calls *)

\* no call is in progress: the caller is free to make one
Idle == call.op = "none"

\* requests.Session.request: the cookies of the response it received are
\* put into the jar of the session that sent the request
Jar(jar, name, r, rep) ==
    IF r.sent # << >> /\ r.sent[1].session = name /\ rep.kind = "resp"
    THEN jar \cup rep.cookies
    ELSE jar

\* one call of a public operation: what it was, what it sent, how it ended
Do(op, args, r, rep) ==
    /\ call' = [op |-> op, args |-> args]
    /\ reply' = IF r.sent = << >> THEN NoReply ELSE rep
    /\ sent' = r.sent
    /\ outcome' = r.outcome
    /\ plain' = NoOutcome
    /\ tools' = << >>
    /\ http_cookies' = Jar(http_cookies, "http", r, rep)
    /\ lc_cookies' = Jar(lc_cookies, "lc", r, rep)
    /\ UNCHANGED config

\* the keyword arguments of search, each filter unset or set (also to a
\* falsy value)
SearchArgs ==
    [q : {None, Empty, SomeText}, domain : {None, SomeText}, protocol : {None, SomeText},
     max_cost : {None, PyInt(0)}, min_verification : {None, SomeText},
     sort : {None, SomeText}, limit : {None, PyInt(0), PyBool(FALSE)},
     offset : {None, PyInt(5)}]

\* replies tried on register, whose arguments are many
FewReplies ==
    {Response(200, Obj([handle |-> SomeText, trust_score |-> PyInt(82)]), <<"<text>">>),
     Response(404, Obj([error |-> PyStr(<<"E">>)]), <<"<text>">>),
     TransportExc("ConnectTimeout")}

search ==
    /\ Idle
    /\ \E args \in SearchArgs, rep \in SomeReplies :
           Do("search", args, CP_search(args, rep), rep)

trust ==
    /\ Idle
    /\ \E handle \in Handles \cup {None} :
          \E rep \in SomeReplies
                      \cup (IF handle = SomeText THEN EnvelopeReplies ELSE {}) :
             Do("trust", [handle |-> handle], CP_trust(handle, rep), rep)

register ==
    /\ Idle
    /\ \E name \in Texts \cup {None}, handle \in Texts \cup {None},
          description \in Texts \cup {None},
          services \in {None, PyList(<< >>)},
          rep \in FewReplies :
           Do("register",
              [name |-> name, handle |-> handle, description |-> description,
               services |-> services],
              CP_register(name, handle, description, services, None, << >>, rep),
              rep)

update ==
    /\ Idle
    /\ \E handle \in Handles \cup {None},
          fields \in {<< >>, [description |-> SomeText],
                      [name |-> SomeText, description |-> Empty]},
          rep \in SomeReplies :
           Do("update", [handle |-> handle, fields |-> fields],
              CP_update(handle, fields, rep), rep)

report ==
    /\ Idle
    /\ \E req \in [provider_handle : {None, Blank, SomeText},
                   requester_handle : {None, Blank, SomeText},
                   protocol : {None, Blank, SomeText},
                   outcome : {None, Empty, SomeText}],
          opt \in [rating : {None, PyInt(0), PyInt(1), PyInt(5), PyInt(6),
                             PyFloat(25)},
                   external_tx_id : {None, SomeText},
                   response_time_ms : {None, PyInt(0)}],
          rep \in SomeReplies :
           Do("report", [required |-> req, optional |-> opt],
              CP_report(req.provider_handle, req.requester_handle, req.protocol,
                        req.outcome, opt.rating, opt.external_tx_id,
                        opt.response_time_ms, None, rep),
              rep)

domains ==
    /\ Idle
    /\ \E rep \in SomeReplies \cup CookieReplies :
           Do("domains", << >>, CP_domains(rep), rep)

scan ==
    /\ Idle
    /\ \E content \in Texts \cup {None}, rep \in SomeReplies :
           Do("scan", [content |-> content], CP_scan(content, rep), rep)

discover ==
    /\ Idle
    /\ \E rep \in SomeReplies : Do("discover", << >>, CP_discover(rep), rep)

search_agents ==
    /\ Idle
    /\ \E query \in {Empty, SomeText}, domain \in {None, Empty, SomeText},
          min_score \in {None, PyInt(0), PyInt(50)}, rep \in SomeReplies :
           Do("search_agents",
              [query |-> query, domain |-> domain, min_score |-> min_score],
              LC_search_agents(query, domain, min_score, rep), rep)

get_agent ==
    /\ Idle
    /\ \E handle \in Handles, rep \in SomeReplies :
           Do("get_agent", [handle |-> handle], LC_get_agent(handle, rep), rep)

get_trust ==
    /\ Idle
    /\ \E handle \in Handles, rep \in SomeReplies :
           Do("get_trust", [handle |-> handle], LC_get_trust(handle, rep), rep)

list_domains ==
    /\ Idle
    /\ \E rep \in SomeReplies \cup AdapterReplies \cup CookieReplies :
           Do("list_domains", << >>, LC_list_domains(rep), rep)

create_exchange_request ==
    /\ Idle
    /\ \E doms \in {PyList(<< >>), PyList(<<SomeText>>)}, task \in {Empty, SomeText},
          requirements \in {None, EmptyDict, Obj([min_trust |-> PyInt(0)])},
          rep \in SomeReplies :
           Do("create_exchange_request",
              [domains |-> doms, task |-> task, requirements |-> requirements],
              LC_create_exchange_request(doms, task, requirements, rep), rep)

get_exchange_request ==
    /\ Idle
    /\ \E request_id \in Handles, rep \in SomeReplies :
           Do("get_exchange_request", [request_id |-> request_id],
              LC_get_exchange_request(request_id, rep), rep)

\* the arguments of the search tool: min_trust is a fraction of 1
SearchToolArgs ==
    [query : {Empty, SomeText}, domain : {None, Empty, SomeText},
     min_trust : {None, PyFloat(0), PyFloat(8), PyFloat(10), PyInt(1)}]

HireToolArgs ==
    [domains : {PyList(<< >>), PyList(<<SomeText>>)}, task : {Empty, SomeText},
     requirements : {None, EmptyDict, Obj([min_trust |-> PyInt(0)])}]

ClawPrintSearchTool_run ==
    /\ Idle
    /\ \E args \in SearchToolArgs, rep \in FewReplies :
           Do("SearchTool._run", args,
              SearchTool_run(args.query, args.domain, args.min_trust, rep), rep)

ClawPrintSearchTool_arun ==
    /\ Idle
    /\ \E args \in SearchToolArgs :
           Do("SearchTool._arun", args,
              SearchTool_arun(args.query, args.domain, args.min_trust), NoReply)

ClawPrintGetAgentTool_run ==
    /\ Idle
    /\ \E handle \in Handles, rep \in FewReplies :
           Do("GetAgentTool._run", [handle |-> handle],
              GetAgentTool_run(handle, rep), rep)

ClawPrintGetAgentTool_arun ==
    /\ Idle
    /\ \E handle \in Handles :
           Do("GetAgentTool._arun", [handle |-> handle],
              GetAgentTool_arun(handle), NoReply)

ClawPrintTrustTool_run ==
    /\ Idle
    /\ \E handle \in Handles, rep \in FewReplies :
           Do("TrustTool._run", [handle |-> handle],
              TrustTool_run(handle, rep), rep)

ClawPrintTrustTool_arun ==
    /\ Idle
    /\ \E handle \in Handles :
           Do("TrustTool._arun", [handle |-> handle],
              TrustTool_arun(handle), NoReply)

ClawPrintDomainsTool_run ==
    /\ Idle
    /\ \E rep \in FewReplies :
           Do("DomainsTool._run", << >>, DomainsTool_run(rep), rep)

ClawPrintDomainsTool_arun ==
    /\ Idle
    /\ Do("DomainsTool._arun", << >>, DomainsTool_arun, NoReply)

ClawPrintHireAgentTool_run ==
    /\ Idle
    /\ \E args \in HireToolArgs, rep \in FewReplies :
           Do("HireAgentTool._run", args,
              HireAgentTool_run(args.domains, args.task, args.requirements, rep),
              rep)

ClawPrintHireAgentTool_arun ==
    /\ Idle
    /\ \E args \in HireToolArgs :
           Do("HireAgentTool._arun", args,
              HireAgentTool_arun(args.domains, args.task, args.requirements), NoReply)

ClawPrintCheckExchangeTool_run ==
    /\ Idle
    /\ \E request_id \in Handles, rep \in FewReplies :
           Do("CheckExchangeTool._run", [request_id |-> request_id],
              CheckExchangeTool_run(request_id, rep), rep)

ClawPrintCheckExchangeTool_arun ==
    /\ Idle
    /\ \E request_id \in Handles :
           Do("CheckExchangeTool._arun", [request_id |-> request_id],
              CheckExchangeTool_arun(request_id), NoReply)

\* toolkit.get_tools(), also called again by a caller that holds the tools
\* of the calls before
get_tools ==
    /\ call.op \in {"none", "get_tools"}
    /\ Len(tools) < MaxGetTools
    /\ call' = [op |-> "get_tools", args |-> << >>]
    /\ reply' = NoReply
    /\ sent' = << >>
    /\ outcome' = Return(Toolkit_get_tools)
    /\ plain' = NoOutcome
    /\ tools' = Append(tools, Toolkit_get_tools)
    /\ UNCHANGED <<config, session>>

\* the transport helper called directly, with every reply
QueryArgs ==
    {None, EmptyDict, Obj([a |-> None]), Obj([a |-> PyInt(0), b |-> None])}

JsonArgs == {None, Obj([x |-> SomeText])}

http_request ==
    /\ Idle
    /\ \E method \in {"GET", "DELETE"}, params \in QueryArgs,
          json_body \in JsonArgs, authenticated \in BOOLEAN, rep \in Replies :
           Do("http.request",
              [method |-> method, path |-> <<"/v1/x">>, params |-> params,
               json_body |-> json_body, authenticated |-> authenticated],
              HTTP_request(method, <<"/v1/x">>, params, json_body,
                           authenticated, rep),
              rep)

http_get ==
    /\ Idle
    /\ \E params \in QueryArgs, authenticated \in BOOLEAN, rep \in Replies :
           Do("http.get",
              [path |-> <<"/v1/x">>, params |-> params,
               authenticated |-> authenticated],
              HTTP_get(<<"/v1/x">>, params, authenticated, rep), rep)

http_post ==
    /\ Idle
    /\ \E json_body \in JsonArgs, authenticated \in BOOLEAN, rep \in Replies :
           Do("http.post",
              [path |-> <<"/v1/x">>, json_body |-> json_body,
               authenticated |-> authenticated],
              HTTP_post(<<"/v1/x">>, json_body, authenticated, rep), rep)

http_patch ==
    /\ Idle
    /\ \E json_body \in JsonArgs, authenticated \in BOOLEAN, rep \in Replies :
           Do("http.patch",
              [path |-> <<"/v1/x">>, json_body |-> json_body,
               authenticated |-> authenticated],
              HTTP_patch(<<"/v1/x">>, json_body, authenticated, rep), rep)

\* the call has returned or raised: the caller proceeds; of the call, only
\* what the sessions hold is kept
proceed ==
    /\ call.op # "none"
    /\ call' = [op |-> "none"]
    /\ reply' = NoReply
    /\ sent' = << >>
    /\ outcome' = NoOutcome
    /\ plain' = NoOutcome
    /\ tools' = << >>
    /\ UNCHANGED <<config, session>>

\* the caller converts the envelope it was given back to a plain mapping
to_dict_call ==
    /\ call.op \in {"search", "trust", "register", "update", "report",
                    "domains", "scan", "discover"}
    /\ outcome.kind = "return"
    /\ plain = NoOutcome
    /\ plain' = to_dict(outcome.value)
    /\ UNCHANGED <<config, session, call, reply, sent, outcome, tools>>

Next ==
    \/ proceed
    \/ to_dict_call
    \/ search
    \/ trust
    \/ register
    \/ update
    \/ report
    \/ domains
    \/ scan
    \/ discover
    \/ search_agents
    \/ get_agent
    \/ get_trust
    \/ list_domains
    \/ create_exchange_request
    \/ get_exchange_request
    \/ http_request
    \/ http_get
    \/ http_post
    \/ http_patch
    \/ get_tools
    \/ ClawPrintSearchTool_run
    \/ ClawPrintSearchTool_arun
    \/ ClawPrintGetAgentTool_run
    \/ ClawPrintGetAgentTool_arun
    \/ ClawPrintTrustTool_run
    \/ ClawPrintTrustTool_arun
    \/ ClawPrintDomainsTool_run
    \/ ClawPrintDomainsTool_arun
    \/ ClawPrintHireAgentTool_run
    \/ ClawPrintHireAgentTool_arun
    \/ ClawPrintCheckExchangeTool_run
    \/ ClawPrintCheckExchangeTool_arun

Spec == Init /\ [][Next]_vars

----------------------------------------------------------------------------
(* Vocabulary of the properties *)

SdkOps ==
    {"search", "trust", "register", "update", "report", "domains", "scan",
     "discover"}

SdkAuthOps == {"update", "report", "scan"}

AdapterOps ==
    {"search_agents", "get_agent", "get_trust", "list_domains",
     "create_exchange_request", "get_exchange_request"}

AdapterAuthOps == {"create_exchange_request", "get_exchange_request"}

HelperOps == {"http.request", "http.get", "http.post", "http.patch"}

Called == call.op # "none"
Raised == outcome.kind = "raise"
Returned == outcome.kind = "return"
NoRequest == sent = << >>
OneRequest == Len(sent) = 1

\* a status of the 2xx range
Is2xx(status_code) == 200 <= status_code /\ status_code <= 299

\* the last call was made directly on the transport helper with the
\* authentication-required flag set
HelperAuthCall == call.op \in HelperOps /\ call.args.authenticated

----------------------------------------------------------------------------
(* C1 *)

\* C1: on clients built with no api_key argument and no CLAWPRINT_API_KEY,
\* every authenticated operation fails with its layer's authentication
\* error (SDK: AuthenticationError, code auth_required; adapter:
\* ClawPrintAPIError, status 401) and has issued no request.
C1_NoKeyNoRequest ==
    (arg_key = None /\ env_key = None
     /\ call.op \in SdkAuthOps \cup AdapterAuthOps)
    => /\ NoRequest
       /\ Raised
       /\ call.op \in SdkAuthOps
          => /\ outcome.error.cls = "AuthenticationError"
             /\ outcome.error.code = PyStr(<<"auth_required">>)
       /\ call.op \in AdapterAuthOps
          => /\ outcome.error.cls = "ClawPrintAPIError"
             /\ outcome.error.status_code = 401

\* report with every field valid, and hire, on clients without a key
C1_Witness ==
    /\ arg_key = None /\ env_key = None
    /\ \/ /\ call.op = "report"
          /\ call.args.required.outcome = SomeText
          /\ call.args.required.protocol = SomeText
          /\ call.args.optional.rating = PyInt(5)
          /\ Raised
       \/ /\ call.op = "create_exchange_request"
          /\ Raised

----------------------------------------------------------------------------
(* C2 *)

\* C2 as claimed: the transport helper, called with the
\* authentication-required flag on a helper without a key, fails with an
\* authentication-required error and issues no request.
C2_HelperRefuses ==
    (HelperAuthCall /\ ~Truthy(http_api_key))
    => /\ NoRequest
       /\ Raised
       /\ outcome.error.code = PyStr(<<"auth_required">>)

\* C2 amended: the transport helper does not check the key.  Called with the
\* flag set and no key it issues the request, without an Authorization
\* header, and ends as the reply decides; the authentication-required error
\* is raised by the client's authenticated operations before they reach it.
C2_HelperSendsUnauthenticated ==
    /\ (HelperAuthCall /\ ~Truthy(http_api_key))
       => /\ OneRequest
          /\ "Authorization" \notin DOMAIN sent[1].headers.d
          /\ Raised => outcome.error.code # PyStr(<<"auth_required">>)
    /\ (call.op \in SdkAuthOps /\ ~Truthy(cp_api_key))
       => /\ NoRequest
          /\ Raised
          /\ outcome.error.cls = "AuthenticationError"

C2_Witness ==
    /\ HelperAuthCall
    /\ call.op = "http.post"
    /\ http_api_key = None
    /\ OneRequest
    /\ Returned

----------------------------------------------------------------------------
(* C3 *)

\* C3: the transport helper returns a result if and only if the response's
\* status is in 200..299; every other status raises.
C3_SuccessIff2xx ==
    (call.op \in HelperOps /\ reply.kind = "resp")
    => (Returned <=> Is2xx(reply.status_code))

----------------------------------------------------------------------------
(* C4 *)

\* body has a field named key
HasField(body, key) ==
    body # Unparsable /\ body.t = "dict" /\ key \in DOMAIN body.d

\* the text the claim gives the error: the 'error' field, else the 'message'
\* field, else the generic fallback
ClaimedMessage(body) ==
    IF HasField(body, "error") THEN Str(body.d["error"])
    ELSE IF HasField(body, "message") THEN Str(body.d["message"])
    ELSE <<"API request failed">>

\* C4: for every non-2xx response handled by the transport helper a
\* ClawPrintError is raised whose status is the HTTP status, whose message
\* is the body's 'error' field, else its 'message' field, else the fallback,
\* whose code is the body's 'code' field if present, and whose body is the
\* parsed body (absent when unparsable).
C4_ErrorFromResponse ==
    (call.op \in HelperOps /\ reply.kind = "resp"
     /\ ~Is2xx(reply.status_code))
    => /\ Raised
       /\ outcome.error.cls = "ClawPrintError"
       /\ outcome.error.status = PyInt(reply.status_code)
       /\ outcome.error.message = ClaimedMessage(reply.json)
       /\ outcome.error.code = IF HasField(reply.json, "code")
                               THEN reply.json.d["code"] ELSE None
       /\ outcome.error.body = IF reply.json = Unparsable
                               THEN None ELSE reply.json

----------------------------------------------------------------------------
(* C5 *)

\* C5: an unparsable body is never itself an error.  With a success status
\* the helper returns an empty mapping, with a non-success status it raises
\* the API error with body absent and the fallback message; with a success
\* status and a parsable body it returns the parsed body unchanged.
C5_UnparsableTolerated ==
    (call.op \in HelperOps /\ reply.kind = "resp")
    => /\ (reply.json = Unparsable /\ Is2xx(reply.status_code))
          => outcome = Return(EmptyDict)
       /\ (reply.json = Unparsable /\ ~Is2xx(reply.status_code))
          => /\ Raised
             /\ outcome.error.cls = "ClawPrintError"
             /\ outcome.error.body = None
             /\ outcome.error.message = <<"API request failed">>
       /\ (reply.json # Unparsable /\ Is2xx(reply.status_code))
          => outcome = Return(reply.json)

----------------------------------------------------------------------------
(* C6 *)

\* sub occurs in s
Contains(s, sub) ==
    \E i \in 1..(Len(s) - Len(sub) + 1) : SubSeq(s, i, i + Len(sub) - 1) = sub

\* the code the claims give a transport failure: a timeout is a timeout,
\* also when it happened while connecting
ClaimedCode(exc) ==
    IF IsInstance(exc, "Timeout") THEN <<"timeout">>
    ELSE IF IsInstance(exc, "ConnectionError") THEN <<"connection_error">>
    ELSE <<"request_error">>

\* C6: a transport failure raises a ClawPrintError with no status and the
\* code of its kind: connection_error, timeout (the message containing the
\* configured timeout) or request_error; nothing is returned.
C6_TransportFailureCodes ==
    (call.op \in HelperOps /\ reply.kind = "exc")
    => /\ Raised
       /\ outcome.error.cls = "ClawPrintError"
       /\ outcome.error.status = None
       /\ outcome.error.code = PyStr(ClaimedCode(reply.exc))
       /\ IsInstance(reply.exc, "Timeout")
          => Contains(outcome.error.message, Str(http_timeout))

----------------------------------------------------------------------------
(* C7 *)

\* C7: every SDK call aborted by the timeout surfaces as the timeout error,
\* also when the timeout occurred while connecting.
C7_TimeoutSurfaces ==
    (call.op \in SdkOps \cup HelperOps /\ reply.kind = "exc"
     /\ IsInstance(reply.exc, "Timeout"))
    => /\ Raised
       /\ outcome.error.code = PyStr(<<"timeout">>)

----------------------------------------------------------------------------
(* C8 *)

\* not absent and, for a string, not blank
Present(v) ==
    v # None /\ (v.t = "str" => \E i \in 1..Len(v.s) : v.s[i] \notin Whitespace)

\* the authentication and validation checks of the last call pass
ChecksPass ==
    CASE call.op = "trust" -> Present(call.args.handle)
      [] call.op = "register" ->
            /\ Present(call.args.name)
            /\ Present(call.args.handle)
            /\ Present(call.args.description)
      [] call.op = "update" ->
            /\ Truthy(cp_api_key)
            /\ Present(call.args.handle)
            /\ DOMAIN call.args.fields # {}
      [] call.op = "report" ->
            /\ Truthy(cp_api_key)
            /\ \A k \in DOMAIN call.args.required :
                  Present(call.args.required[k])
            /\ \/ call.args.optional.rating = None
               \/ /\ 10 <= X10(call.args.optional.rating)
                  /\ X10(call.args.optional.rating) <= 50
      [] call.op = "scan" ->
            Truthy(cp_api_key) /\ Present(call.args.content)
      [] call.op \in AdapterAuthOps -> Truthy(lc_api_key)
      [] OTHER -> TRUE

\* the reply is a failure: a transport failure or a non-2xx response
FailureReply ==
    \/ reply.kind = "exc"
    \/ reply.kind = "resp" /\ ~Is2xx(reply.status_code)

\* C8: every public operation of the SDK client and of the adapter client
\* issues at most one request per call: exactly one when its checks pass,
\* none when they fail; after a transport failure or a non-2xx response no
\* further request is issued and the failure is raised to the caller.
C8_OneRequestNoRetry ==
    call.op \in SdkOps \cup AdapterOps
    => /\ Len(sent) <= 1
       /\ ChecksPass => OneRequest
       /\ ~ChecksPass => NoRequest /\ Raised
       /\ FailureReply => OneRequest /\ Raised

\* the part of C8 about the number of requests
C8_AtMostOneRequest ==
    call.op \in SdkOps \cup AdapterOps
    => /\ Len(sent) <= 1
       /\ ChecksPass => OneRequest
       /\ ~ChecksPass => NoRequest /\ Raised

----------------------------------------------------------------------------
(* C9 *)

\* the filters of the last search that were set
SetFilters == {k \in DOMAIN call.args : call.args[k] # None}

\* C9: the query parameters of search are exactly the filters whose argument
\* is not None, each with its value unchanged (also a falsy one); with no
\* filter set no query parameters are sent at all.
C9_SearchParams ==
    call.op = "search"
    => /\ OneRequest
       /\ sent[1].method = "GET"
       /\ IF SetFilters = {}
          THEN sent[1].params = None
          ELSE /\ sent[1].params.t = "dict"
               /\ DOMAIN sent[1].params.d = SetFilters
               /\ \A k \in SetFilters : sent[1].params.d[k] = call.args[k]

\* search with q = "", max_cost = 0, limit = False and the rest unset
C9_Witness ==
    /\ call.op = "search"
    /\ SetFilters = {"q", "max_cost", "limit"}
    /\ call.args.q = Empty
    /\ call.args.max_cost = PyInt(0)
    /\ call.args.limit = PyBool(FALSE)
    /\ OneRequest
    /\ DOMAIN sent[1].params.d = {"q", "max_cost", "limit"}

----------------------------------------------------------------------------
(* C10 *)

\* absent, or a string that is blank after trimming
AbsentOrBlank(v) ==
    v = None \/ (v.t = "str" /\ \A i \in 1..Len(v.s) : v.s[i] \in Whitespace)

\* C10: register with name, handle or description absent or blank fails
\* with a ValidationError and issues no request; with all three non-empty
\* it issues exactly one POST to /v1/agents whose body holds the three
\* values as given.
C10_RegisterValidation ==
    call.op = "register"
    => IF \/ AbsentOrBlank(call.args.name)
          \/ AbsentOrBlank(call.args.handle)
          \/ AbsentOrBlank(call.args.description)
       THEN /\ NoRequest
            /\ Raised
            /\ outcome.error.cls = "ValidationError"
       ELSE /\ OneRequest
            /\ sent[1].method = "POST"
            /\ sent[1].url = http_base_url \o <<"/v1/agents">>
            /\ sent[1].json.t = "dict"
            /\ \A k \in {"name", "handle", "description"} :
                  /\ k \in DOMAIN sent[1].json.d
                  /\ sent[1].json.d[k] = call.args[k]

\* a blank name refused, and a padded name sent as given
C10_Witness ==
    /\ call.op = "register"
    /\ \/ /\ call.args.name = Blank
          /\ call.args.handle = SomeText
          /\ call.args.description = SomeText
          /\ NoRequest
       \/ /\ call.args.name = PyStr(<<" ", "a">>)
          /\ OneRequest
          /\ sent[1].json.d["name"] = PyStr(<<" ", "a">>)

----------------------------------------------------------------------------
(* C11 *)

\* report on a client with a key, its four required fields non-empty
ReportReachesRating ==
    /\ call.op = "report"
    /\ Truthy(cp_api_key)
    /\ \A k \in DOMAIN call.args.required :
          ~AbsentOrBlank(call.args.required[k])

\* a success response as the registry gives it: a 2xx status with a JSON
\* object as its body
SuccessReply ==
    /\ reply.kind = "resp"
    /\ Is2xx(reply.status_code)
    /\ reply.json.t = "dict"

\* C11: report on a client with a key and the four required fields
\* non-empty: an integer rating below 1 or above 5 fails with a
\* ValidationError and issues no request; an integer rating in 1..5 passes,
\* is sent in the body unchanged, and the call returns on a success response;
\* an omitted rating puts no "rating" key in the body.
C11_RatingRange ==
    ReportReachesRating
    => LET rating == call.args.optional.rating
       IN  /\ (rating.t = "int" /\ (rating.n < 1 \/ rating.n > 5))
              => /\ NoRequest
                 /\ Raised
                 /\ outcome.error.cls = "ValidationError"
           /\ (rating.t = "int" /\ 1 <= rating.n /\ rating.n <= 5)
              => /\ OneRequest
                 /\ "rating" \in DOMAIN sent[1].json.d
                 /\ sent[1].json.d["rating"] = rating
                 /\ SuccessReply => Returned
           /\ rating = None
              => /\ OneRequest
                 /\ "rating" \notin DOMAIN sent[1].json.d

\* the lower bound 1 sent and answered
C11_Witness ==
    /\ ReportReachesRating
    /\ call.args.optional.rating = PyInt(1)
    /\ OneRequest
    /\ sent[1].json.d["rating"] = PyInt(1)
    /\ SuccessReply
    /\ Returned

----------------------------------------------------------------------------
(* C12 *)

\* C12: report accepts a supplied rating only if it is an integer in 1..5:
\* any other supplied rating, such as the number 2.5, fails with a
\* ValidationError before any request is issued.
C12_IntegerRatingOnly ==
    ReportReachesRating
    => LET rating == call.args.optional.rating
       IN  (rating # None
            /\ ~(rating.t = "int" /\ 1 <= rating.n /\ rating.n <= 5))
           => /\ NoRequest
              /\ Raised
              /\ outcome.error.cls = "ValidationError"

----------------------------------------------------------------------------
(* C13 *)

\* update on a client with a key, with a non-empty handle
UpdateReachesFields ==
    /\ call.op = "update"
    /\ Truthy(cp_api_key)
    /\ ~AbsentOrBlank(call.args.handle)

\* the request carries the client's key as its bearer token
Authenticated(req, key) ==
    /\ "Authorization" \in DOMAIN req.headers.d
    /\ req.headers.d["Authorization"] = PyStr(<<"Bearer ">> \o key.s)

\* C13: update on a client with a key and a non-empty handle: with no patch
\* field it fails with a ValidationError and issues no request; with at
\* least one field it issues exactly one authenticated PATCH to
\* /v1/agents/<encoded handle> whose body is exactly the supplied fields.
C13_UpdatePatch ==
    UpdateReachesFields
    => IF DOMAIN call.args.fields = {}
       THEN /\ NoRequest
            /\ Raised
            /\ outcome.error.cls = "ValidationError"
       ELSE /\ OneRequest
            /\ sent[1].method = "PATCH"
            /\ sent[1].url = http_base_url \o <<"/v1/agents/">>
                             \o encode_path_segment(call.args.handle.s)
            /\ sent[1].json = PyDict(call.args.fields)
            /\ Authenticated(sent[1], cp_api_key)

\* a patch of two fields, one of them empty, sent for a handle with a slash
C13_Witness ==
    /\ UpdateReachesFields
    /\ call.args.handle = PyStr(<<"a", "/">>)
    /\ DOMAIN call.args.fields = {"name", "description"}
    /\ OneRequest
    /\ sent[1].method = "PATCH"
    /\ sent[1].json.d["description"] = Empty

----------------------------------------------------------------------------
(* C14 *)

\* C14: whenever a request is sent with authentication required and a key
\* configured, it carries the header Authorization = "Bearer " followed by
\* exactly the configured key: the SDK's update, report and scan (and the
\* transport helper called with the flag), the adapter's hire and
\* check-exchange.
C14_BearerHeader ==
    /\ (call.op \in SdkAuthOps /\ Truthy(cp_api_key) /\ OneRequest)
       => Authenticated(sent[1], cp_api_key)
    /\ (HelperAuthCall /\ Truthy(http_api_key))
       => /\ OneRequest
          /\ Authenticated(sent[1], http_api_key)
    /\ (call.op \in AdapterAuthOps /\ Truthy(lc_api_key) /\ OneRequest)
       => Authenticated(sent[1], lc_api_key)

\* scan with the key of the environment, hire with the key of the argument
C14_Witness ==
    \/ /\ call.op = "scan"
       /\ arg_key = None
       /\ OneRequest
       /\ sent[1].headers.d["Authorization"] = PyStr(<<"Bearer ", "cp_env_key">>)
    \/ /\ call.op = "create_exchange_request"
       /\ OneRequest
       /\ sent[1].headers.d["Authorization"] = PyStr(<<"Bearer ", "cp_explicit">>)

----------------------------------------------------------------------------
(* C15 *)

\* the key each layer works with
ResolvedKeys == {cp_api_key, http_api_key, lc_api_key}

\* C15: the key of a client is the api_key argument of its constructor for
\* every value supplied, the empty string included, whatever
\* CLAWPRINT_API_KEY holds; the environment's value when no argument is
\* supplied; absent when neither exists.
C15_ArgumentPrecedence ==
    /\ arg_key # None => ResolvedKeys = {arg_key}
    /\ (arg_key = None /\ env_key # None) => ResolvedKeys = {env_key}
    /\ (arg_key = None /\ env_key = None) => ResolvedKeys = {None}

----------------------------------------------------------------------------
(* C16 *)

\* the classes of clawprint.exceptions
ErrorFamily == {"ClawPrintError", "AuthenticationError", "ValidationError"}

\* C16: every error raised by a public operation of the SDK client is a
\* ClawPrintError, an AuthenticationError or a ValidationError, whatever the
\* input and whatever the response, a success response whose JSON body is
\* an array or a scalar included.
C16_OneErrorFamily ==
    (call.op \in SdkOps /\ Raised) => outcome.error.cls \in ErrorFamily

----------------------------------------------------------------------------
(* C17 *)

\* the last call built its envelope from a JSON object of the response
EnvelopeSource ==
    /\ call.op \in SdkOps
    /\ OneRequest
    /\ reply.kind = "resp"
    /\ Is2xx(reply.status_code)
    /\ reply.json.t = "dict"

\* C17: for every JSON object d, whatever its keys ("_data", "get" and
\* "to_dict" included) and values, the envelope is constructed from d and
\* its to_dict() returns a plain mapping equal to d.
C17_RoundTrip ==
    EnvelopeSource
    => /\ Returned
       /\ plain # NoOutcome => plain = Return(reply.json)

----------------------------------------------------------------------------
(* C18 *)

\* x is what the envelope is to give for the JSON value v: v itself for a
\* scalar, an envelope giving each field of v for an object, a list of the
\* same length giving each element of v in its place for a list
RECURSIVE Exposes(_, _)
Exposes(x, v) ==
    CASE v.t = "dict" ->
            /\ x.t = "obj"
            /\ \A k \in DOMAIN v.d :
                  /\ GetAttr(x, k).kind = "return"
                  /\ Exposes(GetAttr(x, k).value, v.d[k])
      [] v.t = "list" ->
            /\ x.t = "list"
            /\ Len(x.l) = Len(v.l)
            /\ \A i \in 1..Len(v.l) : Exposes(x.l[i], v.l[i])
      [] OTHER -> x = v

\* C18: wrapping is total and structural: for every JSON object the
\* envelope is built, and access by name to each of its fields yields the
\* scalar unchanged, a nested envelope for an object, and for a list a list
\* of the same length and order whose objects are envelopes, at any depth.
C18_StructuralWrapping ==
    EnvelopeSource
    => /\ Returned
       /\ Exposes(outcome.value, reply.json)

----------------------------------------------------------------------------
(* C19 *)

\* base is url with its trailing slashes taken off, and nothing else
SlashesStripped(base, url) ==
    /\ base = << >> \/ base[Len(base)] # "/"
    /\ Len(base) <= Len(url)
    /\ SubSeq(url, 1, Len(base)) = base
    /\ \A i \in (Len(base) + 1)..Len(url) : url[i] = "/"

\* the path of the last call's operation
OperationPath ==
    CASE call.op = "search" -> <<"/v1/agents/search">>
      [] call.op = "trust" ->
            <<"/v1/trust/">> \o encode_path_segment(call.args.handle.s)
      [] call.op = "register" -> <<"/v1/agents">>
      [] call.op = "update" ->
            <<"/v1/agents/">> \o encode_path_segment(call.args.handle.s)
      [] call.op = "report" -> <<"/v1/transactions/report">>
      [] call.op = "domains" -> <<"/v1/domains">>
      [] call.op = "scan" -> <<"/v1/security/scan">>
      [] call.op = "discover" -> <<"/v1/discover">>
      [] call.op = "search_agents" -> <<"/v1/agents/search">>
      [] call.op = "get_agent" -> <<"/v1/agents/">> \o Str(call.args.handle)
      [] call.op = "get_trust" -> <<"/v1/trust/">> \o Str(call.args.handle)
      [] call.op = "list_domains" -> <<"/v1/domains">>
      [] call.op = "create_exchange_request" -> <<"/v1/exchange/requests">>
      [] call.op = "get_exchange_request" ->
            <<"/v1/exchange/requests/">> \o Str(call.args.request_id)
      [] call.op \in HelperOps -> call.args.path
      [] call.op = "SearchTool._run" -> <<"/v1/agents/search">>
      [] call.op = "GetAgentTool._run" ->
            <<"/v1/agents/">> \o Str(call.args.handle)
      [] call.op = "TrustTool._run" -> <<"/v1/trust/">> \o Str(call.args.handle)
      [] call.op = "DomainsTool._run" -> <<"/v1/domains">>
      [] call.op = "HireAgentTool._run" -> <<"/v1/exchange/requests">>
      [] call.op = "CheckExchangeTool._run" ->
            <<"/v1/exchange/requests/">> \o Str(call.args.request_id)

\* C19: the base URL kept by the SDK's transport helper and by the adapter
\* never ends with "/": it is the base_url argument with its trailing
\* slashes stripped and otherwise unchanged; and the URL of every request
\* is that base URL immediately followed by the operation's path.
C19_BaseUrlNormalised ==
    /\ SlashesStripped(http_base_url, arg_base_url)
    /\ SlashesStripped(lc_base_url, arg_base_url)
    /\ OneRequest
       => sent[1].url = (IF call.op \in SdkOps \cup HelperOps
                         THEN http_base_url
                         ELSE lc_base_url) \o OperationPath

\* two trailing slashes taken off, a request of each layer sent
C19_Witness ==
    /\ arg_base_url = <<"https://custom.api.io", "/", "/">>
    /\ call.op \in {"domains", "list_domains"}
    /\ OneRequest
    /\ sent[1].url = <<"https://custom.api.io", "/v1/domains">>

----------------------------------------------------------------------------
(* C20 *)

HexDigits ==
    {"0", "1", "2", "3", "4", "5", "6", "7", "8", "9", "A", "B", "C", "D",
     "E", "F"}

\* seg is s with each unreserved character kept and every other character
\* replaced by a percent escape
RECURSIVE Escaped(_, _)
Escaped(s, seg) ==
    IF s = << >>
    THEN seg = << >>
    ELSE IF Head(s) \in Unreserved
    THEN /\ seg # << >>
         /\ Head(seg) = Head(s)
         /\ Escaped(Tail(s), Tail(seg))
    ELSE /\ Len(seg) >= 3
         /\ seg[1] = "%"
         /\ seg[2] \in HexDigits
         /\ seg[3] \in HexDigits
         /\ Escaped(Tail(s), SubSeq(seg, 4, Len(seg)))

\* trust, or update that has passed its checks, with a non-blank handle
HandleInPath ==
    /\ \/ call.op = "trust"
       \/ call.op = "update" /\ Truthy(cp_api_key)
          /\ DOMAIN call.args.fields # {}
    /\ ~AbsentOrBlank(call.args.handle)

\* C20: encode_path_segment escapes every character outside the unreserved
\* set and keeps the unreserved ones, so that for any non-blank handle
\* ("/", "?", "#" and spaces included) trust and update request a path with
\* exactly one segment after /v1/trust/ or /v1/agents/, and the handle
\* brings in no query and no fragment.
C20_OneSafeSegment ==
    HandleInPath
    => /\ OneRequest
       /\ LET url == sent[1].url
              n == Len(http_base_url)
              seg == SubSeq(url, n + 2, Len(url))
          IN  /\ SubSeq(url, 1, n) = http_base_url
              /\ url[n + 1] = (IF call.op = "trust" THEN "/v1/trust/"
                               ELSE "/v1/agents/")
              /\ seg # << >>
              /\ Escaped(call.args.handle.s, seg)
              /\ \A i \in 1..Len(seg) : seg[i] \notin {"/", "?", "#", " "}

\* a handle made of a slash and a question mark
C20_Witness ==
    /\ call.op = "trust"
    /\ call.args.handle = PyStr(<<"/", "?">>)
    /\ OneRequest
    /\ sent[1].url = http_base_url
                     \o <<"/v1/trust/", "%", "2", "F", "%", "3", "F">>

----------------------------------------------------------------------------
(* C21 *)

\* the asynchronous entry points of the six tools
AsyncOps ==
    {"SearchTool._arun", "GetAgentTool._arun", "TrustTool._arun",
     "DomainsTool._arun", "HireAgentTool._arun", "CheckExchangeTool._arun"}

\* C21: the asynchronous invocation of each of the six tools always fails
\* with NotImplementedError, whatever the arguments and whether or not a key
\* is configured, and issues no request.
C21_AsyncNotSupported ==
    call.op \in AsyncOps
    => /\ Raised
       /\ outcome.error.cls = "NotImplementedError"
       /\ NoRequest

\* the hire tool awaited on a client that has a key, with a task to do
C21_Witness ==
    /\ call.op = "HireAgentTool._arun"
    /\ Truthy(lc_api_key)
    /\ call.args.task = SomeText
    /\ Raised

----------------------------------------------------------------------------
(* C22 *)

SixToolNames ==
    {"clawprint_search", "clawprint_get_agent", "clawprint_trust",
     "clawprint_domains", "clawprint_hire", "clawprint_check_exchange"}

\* C22: get_tools always returns exactly six tools, with the six distinct
\* names, all bound to the one client made when the toolkit was built, also
\* across repeated calls, whether or not an API key is configured.
C22_SixToolsOneClient ==
    /\ call.op = "get_tools"
       => /\ Returned
          /\ tools # << >>
          /\ outcome.value = tools[Len(tools)]
    /\ \A i \in 1..Len(tools) :
          /\ tools[i].t = "list"
          /\ Len(tools[i].l) = 6
          /\ {tools[i].l[j].name : j \in 1..6} = SixToolNames
          /\ \A j \in 1..6 : tools[i].l[j].client = ClientRef(1)
                             /\ tools[i].l[j].client = toolkit_client

\* get_tools called twice on a toolkit without a key
C22_Witness ==
    /\ call.op = "get_tools"
    /\ lc_api_key = None
    /\ Len(tools) = 2
    /\ tools[1].l[5].client = tools[2].l[6].client

----------------------------------------------------------------------------
(* C23 *)

\* C23: the search tool sends min_score = 100 times min_trust whenever
\* min_trust is supplied, zero included, and no min_score when it is not; the
\* query is always sent as "q"; domain is sent only when it is a non-empty
\* string.
C23_TrustScale ==
    call.op = "SearchTool._run"
    => /\ OneRequest
       /\ LET params == sent[1].params.d
              args == call.args
          IN  /\ "q" \in DOMAIN params
              /\ params["q"] = args.query
              /\ args.min_trust # None
                 => /\ "min_score" \in DOMAIN params
                    /\ X10(params["min_score"]) = 100 * X10(args.min_trust)
              /\ args.min_trust = None => "min_score" \notin DOMAIN params
              /\ "domain" \in DOMAIN params
                 <=> (args.domain # None /\ args.domain # Empty)
              /\ "domain" \in DOMAIN params => params["domain"] = args.domain

\* a min_trust of 0.0 sent as a min_score of zero, with an empty query
C23_Witness ==
    /\ call.op = "SearchTool._run"
    /\ call.args.min_trust = PyFloat(0)
    /\ call.args.query = Empty
    /\ call.args.domain = Empty
    /\ OneRequest
    /\ DOMAIN sent[1].params.d = {"q", "min_score"}
    /\ sent[1].params.d["min_score"] = PyFloat(0)

----------------------------------------------------------------------------
(* C24 *)

\* the field is there and is not empty
NonEmptyField(body, key) == HasField(body, key) /\ Truthy(body.d[key])

\* the first n characters of text
Prefix(text, n) == SubSeq(text, 1, IF Len(text) < n THEN Len(text) ELSE n)

\* the detail the adapter's error is to carry for the response
ClaimedDetail(resp) ==
    IF resp.json = Unparsable \/ resp.json.t # "dict"
    THEN PyStr(Prefix(resp.text, 500))
    ELSE IF NonEmptyField(resp.json, "detail") THEN resp.json.d["detail"]
    ELSE IF NonEmptyField(resp.json, "message") THEN resp.json.d["message"]
    ELSE JsonDumps(resp.json)

\* C24: for every non-success response the adapter client raises
\* ClawPrintAPIError with the response's status and with, as detail, the
\* body's non-empty "detail" field, else its non-empty "message" field, else
\* the JSON text of the body; and the first 500 characters of the response
\* text when the body is unparsable or not an object.
C24_AdapterError ==
    (call.op \in AdapterOps /\ OneRequest /\ reply.kind = "resp"
     /\ ~Is2xx(reply.status_code))
    => /\ Raised
       /\ outcome.error.cls = "ClawPrintAPIError"
       /\ outcome.error.status_code = reply.status_code
       /\ outcome.error.detail = ClaimedDetail(reply)

----------------------------------------------------------------------------
(* C25 *)

\* no step changes the key, the base URL or the timeout of either client
ConfigurationFixed == [][config' = config]_vars

\* no step changes what a client's session holds
NothingRetained == [][session' = session]_vars

\* C25: the configuration of the clients is fixed at construction: no
\* operation changes it, however it ends, and a client keeps no other state
\* from one call to the next.
C25_FixedAndStateless == ConfigurationFixed /\ NothingRetained

----------------------------------------------------------------------------
(* C26 *)

\* C26: on a success response with status 204 the adapter client returns
\* None, whatever the body is and whether or not it parses; on any other
\* success status it returns the parsed JSON body as it is.
C26_NoContentIsNone ==
    (call.op \in AdapterOps /\ OneRequest /\ reply.kind = "resp"
     /\ Is2xx(reply.status_code))
    => IF reply.status_code = 204
       THEN Returned /\ outcome.value = None
       ELSE reply.json # Unparsable
            => Returned /\ outcome.value = reply.json

\* list_domains, answered 204 with a body that would parse, returned None
C26_Witness ==
    /\ call.op = "list_domains"
    /\ OneRequest
    /\ reply.kind = "resp"
    /\ reply.status_code = 204
    /\ reply.json \notin {Unparsable, EmptyDict}
    /\ outcome = Return(None)

----------------------------------------------------------------------------
(* C27 *)

\* the operations that need no key, and the tools that call them
OpenOps ==
    (SdkOps \ SdkAuthOps) \cup (AdapterOps \ AdapterAuthOps)
    \cup {"SearchTool._run", "GetAgentTool._run", "TrustTool._run",
          "DomainsTool._run"}

\* the request has no Authorization header
NoCredentials(req) == "Authorization" \notin DOMAIN req.headers.d

\* C27: no request of an operation that needs no authentication (the SDK's
\* search, trust, register, domains and discover, the adapter's search_agents,
\* get_agent, get_trust and list_domains) carries an Authorization header,
\* with or without a key configured.
C27_KeyOnlyOnAuthRoutes ==
    call.op \in OpenOps => \A i \in 1..Len(sent) : NoCredentials(sent[i])

\* register was sent by a client that has a key, and without the key
C27_Witness ==
    /\ call.op = "register"
    /\ Truthy(cp_api_key)
    /\ Truthy(http_api_key)
    /\ OneRequest
    /\ NoCredentials(sent[1])
    /\ sent[1].method = "POST"

----------------------------------------------------------------------------
(* C28 *)

\* the names of report's required fields
ReportRequired == {"provider_handle", "requester_handle", "protocol", "outcome"}

\* the last call was a report with one of its required fields absent or blank
ReportLacksField ==
    /\ call.op = "report"
    /\ \E k \in ReportRequired : AbsentOrBlank(call.args.required[k])

\* the last call's input is invalid in some way
InvalidInput ==
    \/ call.op = "update"
       /\ (AbsentOrBlank(call.args.handle) \/ call.args.fields = << >>)
    \/ ReportLacksField
    \/ call.op = "report" /\ call.args.optional.rating \in {PyInt(0), PyInt(6)}
    \/ call.op = "scan" /\ AbsentOrBlank(call.args.content)

\* C28: update, report and scan check the key before any input: on a client
\* without a key every call raises AuthenticationError, a call with invalid
\* input included, and sends nothing; and report checks its required fields
\* before the rating, so with a key and a missing field the error is the one
\* of a required field, whatever the rating.
C28_KeyCheckFirst ==
    /\ (call.op \in SdkAuthOps /\ ~Truthy(cp_api_key))
       => /\ Raised
          /\ outcome.error.cls = "AuthenticationError"
          /\ NoRequest
    /\ (ReportLacksField /\ Truthy(cp_api_key))
       => /\ Raised
          /\ outcome.error \in {RequiredError(<<k>>) : k \in ReportRequired}

\* report without a key, a blank provider handle and the rating 6
C28_Witness ==
    /\ call.op = "report"
    /\ ~Truthy(cp_api_key)
    /\ InvalidInput
    /\ call.args.required.provider_handle = Blank
    /\ call.args.optional.rating = PyInt(6)
    /\ outcome = Raise(AuthenticationError(<<"report">>))

----------------------------------------------------------------------------
(* C29 *)

\* the error has an HTTP status
CarriesStatus(e) == "status" \in DOMAIN e /\ e.status # None

\* the error has a response body
CarriesBody(e) == "body" \in DOMAIN e /\ e.body # None

\* the codes of the three transport errors
TransportCodes ==
    {PyStr(<<"connection_error">>), PyStr(<<"timeout">>), PyStr(<<"request_error">>)}

\* the last call raised an error of the SDK while it held a response
BuiltFromResponse ==
    /\ Raised
    /\ outcome.error.cls \in ErrorFamily
    /\ reply.kind = "resp"

\* C29: an error raised by the SDK has a status exactly when it was built
\* from a response that was received, and that response is not a success:
\* AuthenticationError (code auth_required), ValidationError (code
\* validation_error) and the errors of the three transport failures have
\* neither status nor body, and an error built from a response has the
\* status code of that response.
C29_StatusIffResponse ==
    (call.op \in SdkOps \cup HelperOps /\ Raised)
    => /\ CarriesStatus(outcome.error) <=> BuiltFromResponse
       /\ BuiltFromResponse
          => /\ ~Is2xx(reply.status_code)
             /\ outcome.error.status = PyInt(reply.status_code)
       /\ outcome.error.cls = "AuthenticationError"
          => /\ outcome.error.code = PyStr(<<"auth_required">>)
             /\ ~CarriesStatus(outcome.error)
             /\ ~CarriesBody(outcome.error)
       /\ outcome.error.cls = "ValidationError"
          => /\ outcome.error.code = PyStr(<<"validation_error">>)
             /\ ~CarriesStatus(outcome.error)
             /\ ~CarriesBody(outcome.error)
       /\ reply.kind = "exc"
          => /\ outcome.error.cls = "ClawPrintError"
             /\ outcome.error.code \in TransportCodes
             /\ ~CarriesStatus(outcome.error)
             /\ ~CarriesBody(outcome.error)

\* scan answered 404 with a JSON object: the error has the status 404 and
\* the body
C29_Witness ==
    /\ call.op = "scan"
    /\ BuiltFromResponse
    /\ reply.status_code = 404
    /\ outcome.error.status = PyInt(404)
    /\ outcome.error.body = reply.json

----------------------------------------------------------------------------
(* C30 *)

\* the one request of the last call went to the base URL followed by the
\* prefix and by the identifier, character for character
VerbatimUrl(prefix, identifier) ==
    /\ OneRequest
    /\ sent[1].url = lc_base_url \o <<prefix>> \o identifier.s

\* C30: the adapter's get_agent, get_trust and get_exchange_request send
\* their request for every identifier, the empty one included, and to the URL
\* that is the base URL, the endpoint prefix and the identifier as given:
\* "/", "?" and "#" are not escaped.
C30_IdentifierVerbatim ==
    /\ call.op = "get_agent"
       => VerbatimUrl("/v1/agents/", call.args.handle)
    /\ call.op = "get_trust"
       => VerbatimUrl("/v1/trust/", call.args.handle)
    /\ (call.op = "get_exchange_request" /\ Truthy(lc_api_key))
       => VerbatimUrl("/v1/exchange/requests/", call.args.request_id)

\* get_agent("/?") asked for <base>/v1/agents//?
C30_Witness ==
    /\ call.op = "get_agent"
    /\ call.args.handle = PyStr(<<"/", "?">>)
    /\ OneRequest
    /\ sent[1].url = lc_base_url \o <<"/v1/agents/", "/", "?">>

====
